---- MODULE Spec2Model ----
(***************************************************************************)
(* Model of the Man_Bot retrieval-augmented advice assistant:              *)
(*   src/server/app.py            the /chat and /student_story server      *)
(*   src/bot/bot.py               the Telegram front end (FSM sessions)    *)
(*   src/scripts/load_knowledge.py the offline ingestion pipeline          *)
(*                                                                         *)
(* Text is modelled as a sequence of tokens.  A token is either one        *)
(* character of free text or one literal fragment of a format string, so   *)
(* that concatenation, slicing and joining are the sequence operations the *)
(* Python code performs on strings.                                        *)
(***************************************************************************)
EXTENDS Integers, Sequences, FiniteSets, TLC

VARIABLES
    knowledge_units, \* the knowledge_units table: a set of rows
    pc,              \* position of the server call in progress
    caller,          \* entry point of the call: "chat", "search", "build", "none"
    req,             \* ChatRequest being served
    q_emb,           \* query embedding handed to search_knowledge_units
    embed_outcome,   \* what the embedding provider did: "ok", "provider_error", "no_key", "none"
    search_filters,  \* filters argument of search_knowledge_units
    top_k,           \* top_k argument of search_knowledge_units
    db_open,         \* number of open database connections
    rows,            \* rows returned by db.fetch
    prompt,          \* prompt returned by build_llm_prompt
    used_ids,        \* used_ids returned by build_llm_prompt
    llm_outcome,     \* what the generation provider did
    answer,          \* value returned by call_llm
    response,        \* HTTP response of the endpoint
    raised,          \* exception that left the call: "none" or "db_error"
    google_api_key,  \* whether GOOGLE_API_KEY is configured
    story_req,       \* StoryRequest being served
    student_stories, \* the student_stories table: the rows inserted, in order
    ingest_pc,       \* position of load_knowledge.main: "off", "next", "embed", "insert", "finished"
    ku,              \* the KnowledgeUnit being ingested
    n_files,         \* files of md_files taken so far
    successful,      \* main's counter of units loaded
    failed,          \* main's counter of files that failed
    next_id,         \* next value of the table's id sequence
    now,             \* the database clock, NOW()
    fsm_state,       \* the session's FSM state in MemoryStorage ("none" when unset)
    fsm_data,        \* the session's data dict in MemoryStorage
    heap,            \* the list objects the handlers have created; a reference is an index
    tasks,           \* the handler invocations in progress
    keyboards,       \* how many inline keyboards of each kind the chat shows
    n_updates,       \* updates the dispatcher has taken so far
    reset_in_flight  \* the last update taken was /reset, sent while a chat call was in flight

serverVars == <<knowledge_units, pc, caller, req, q_emb, embed_outcome, search_filters,
                top_k, db_open, rows, prompt, used_ids, llm_outcome, answer, response,
                raised, google_api_key, story_req, student_stories>>

ingestVars == <<ingest_pc, ku, n_files, successful, failed, next_id, now>>

botVars == <<fsm_state, fsm_data, heap, tasks, keyboards, n_updates, reset_in_flight>>

vars == <<serverVars, ingestVars, botVars>>

----------------------------------------------------------------------------
(* Generic helpers *)

Min(a, b) == IF a < b THEN a ELSE b
Max(a, b) == IF a > b THEN a ELSE b
Abs(x) == IF x < 0 THEN -x ELSE x

\* Optional[T]: None is the empty set, a present value v is {v}.
None == {}
Some(v) == {v}
IsSome(o) == o # {}
Val(o) == CHOOSE v \in o : TRUE

\* Python s[:n]
Take(s, n) == SubSeq(s, 1, Min(Len(s), n))

\* Python s[-n:]
LastN(s, n) == SubSeq(s, Max(1, Len(s) - n + 1), Len(s))

RECURSIVE Concat(_)
\* "".join(parts)
Concat(parts) ==
    IF parts = <<>> THEN <<>> ELSE Head(parts) \o Concat(Tail(parts))

RECURSIVE Join(_, _)
\* sep.join(parts)
Join(sep, parts) ==
    IF parts = <<>> THEN <<>>
    ELSE IF Len(parts) = 1 THEN parts[1]
    ELSE parts[1] \o sep \o Join(sep, Tail(parts))

----------------------------------------------------------------------------
(* Bounds and program constants *)

\* longest conversation history a request carries
MaxHistory == 6
\* largest top_k a direct call of search_knowledge_units is given
MaxTopK == 3
\* most units a direct call of build_llm_prompt is given
MaxUnits == 2
\* most files one ingestion run reads
MaxFiles == 3
\* most updates one run of the bot takes
MaxUpdates == 3
\* most handler invocations in progress at once
MaxTasks == 3
\* history[-5:]
HistoryWindow == 5
\* content[:500]
ContentBudget == 500
\* search_knowledge_units(..., top_k: int = 8)
DefaultTopK == 8
\* self.dimension = int(os.getenv("EMBED_DIMENSION", "768")); the vectors of
\* this model have two components
Dimension == 2

----------------------------------------------------------------------------
(* Data: texts, tags, embeddings, knowledge units, requests *)

Alphabet == <<"a", "b", "c", "d", "e", "f", "g">>

\* a free text of n characters; position i holds a character that depends on i
Text(n) == [i \in 1..n |-> Alphabet[(i % Len(Alphabet)) + 1]]

\* order of ku_id values (string comparison of the identifiers)
KuIdOrder == <<"ku1", "ku2", "ku3", "ku4">>
KuIdIndex(id) == CHOOSE i \in 1..Len(KuIdOrder) : KuIdOrder[i] = id

\* one row of the knowledge_units table, as insert_knowledge_unit writes it
KuRow(ku_id, title, content, ulf, stage, channel, goal, embedding) ==
    [id |-> KuIdIndex(ku_id), ku_id |-> ku_id, title |-> title, content |-> content, yaml |-> <<"yaml:", ku_id>>,
     level |-> "base", user_level_fit |-> ulf, stage |-> stage, channel |-> channel,
     goal |-> goal, style |-> {}, riskiness |-> 1, embedding |-> embedding,
     updated_at |-> 0]

\* knowledge units a store may hold; ku1 and ku2 have parallel embeddings, so
\* their cosine similarity to any query is exactly equal
KuUniverse ==
    { KuRow("ku1", <<"T", "1">>, Text(2), {"novice"}, {"cold_approach"}, {}, {}, <<1, 0>>),
      KuRow("ku2", <<"T", "2">>, Text(ContentBudget), {"novice", "master"},
            {"cold_approach", "SOS"}, {}, {}, <<2, 0>>),
      KuRow("ku3", <<"T", "3">>, Text(ContentBudget + 1), {"master"}, {"closing"},
            {"social"}, {}, <<1, 1>>),
      KuRow("ku4", <<"T", "4">>, <<>>, {"novice"}, {}, {"social"}, {"self_growth"},
            <<0, 1>>) }

Stores == SUBSET KuUniverse

\* vectors the embedding provider may return for a query
ProviderEmbeddings == { <<1, 0>>, <<1, 2>> }

Messages == { <<>>, <<"h", "i">> }

\* a conversation of n turns, user and assistant alternating
History(n) ==
    [i \in 1..n |-> [role |-> IF i % 2 = 1 THEN "user" ELSE "assistant",
                     content |-> <<"m", ToString(i)>>]]

Histories == { History(n) : n \in 0..MaxHistory }

\* ChatFilters: every field optional
FilterSet ==
    [level : {None, Some("novice")},
     stage : {None, Some({"cold_approach", "first_date", "closing"})},
     channel : {None, Some({"social", "messengers"})},
     goal : {None, Some({"self_growth"})}]

\* ChatRequest.filters: Optional[ChatFilters]
OptFilters == {None} \cup { Some(f) : f \in FilterSet }

ChatRequests ==
    [user_message : Messages,
     convo_history : {History(0), History(MaxHistory)},
     filters : OptFilters]

NoRequest == [user_message |-> <<>>, convo_history |-> <<>>, filters |-> None]
NoResponse == [status |-> 0, answer |-> <<>>, used_ku_ids |-> <<>>]

\* StoryRequest: text and outcome required, the tags optional
StoryRequests ==
    [level : {None, Some("novice")},
     stage : {None, Some({"SOS"})},
     goal : {None, Some({"self_growth"})},
     text : Messages,
     outcome : {"success", "failure"}]

NoStory == [level |-> None, stage |-> None, goal |-> None, text |-> <<>>, outcome |-> ""]

----------------------------------------------------------------------------
(* embed_text and call_llm *)

\* random.seed(md5(text)); [random.random() for _ in range(768)]:
\* a vector fixed by the text alone, not by its meaning
FallbackEmbedding(text) == <<Len(text) + 1, 3>>

\* str.upper() on the role names
Upper(role) == CASE role = "user" -> "USER"
                 [] role = "assistant" -> "ASSISTANT"
                 [] OTHER -> role

LlmText == <<"generated", "advice">>
WarnNoKey == <<"WARN_GOOGLE_API_KEY_not_configured">>
WarnLlmError == <<"WARN_LLM_error:", "exception">>

----------------------------------------------------------------------------
(* search_knowledge_units *)

\* if filters.<field>: a list is truthy when present and non-empty
TruthyList(o) == IsSome(o) /\ Val(o) # {}
\* a string is truthy when present and non-empty
TruthyStr(o) == IsSome(o) /\ Val(o) # ""

\* a bound query parameter
Param(key, tags, text, vec) == [key |-> key, tags |-> tags, text |-> text, vec |-> vec]

\* the WHERE conditions, each with the placeholder number written in its text
Conditions(filters) ==
    IF ~IsSome(filters) THEN <<>>
    ELSE LET f == Val(filters) IN
         (IF TruthyList(f.stage) THEN <<[col |-> "stage", ph |-> 2]>> ELSE <<>>)
         \o (IF TruthyList(f.channel) THEN <<[col |-> "channel", ph |-> 3]>> ELSE <<>>)
         \o (IF TruthyList(f.goal) THEN <<[col |-> "goal", ph |-> 4]>> ELSE <<>>)
         \o (IF TruthyStr(f.level) THEN <<[col |-> "user_level_fit", ph |-> 5]>> ELSE <<>>)

\* sql_params: the query vector, then the parameters that are set, in the
\* order stage, channel, goal, ulf, with no gaps
SqlParams(q, filters) ==
    <<Param("q", {}, "", q)>> \o
    (IF ~IsSome(filters) THEN <<>>
     ELSE LET f == Val(filters) IN
          (IF TruthyList(f.stage) THEN <<Param("stage", Val(f.stage), "", <<>>)>> ELSE <<>>)
          \o (IF TruthyList(f.channel) THEN <<Param("channel", Val(f.channel), "", <<>>)>> ELSE <<>>)
          \o (IF TruthyList(f.goal) THEN <<Param("goal", Val(f.goal), "", <<>>)>> ELSE <<>>)
          \o (IF TruthyStr(f.level) THEN <<Param("ulf", {}, Val(f.level), <<>>)>> ELSE <<>>))

\* placeholders the query text refers to: $1 and those of the conditions
Placeholders(filters) ==
    {1} \cup { Conditions(filters)[i].ph : i \in 1..Len(Conditions(filters)) }

\* db.fetch(query, *sql_params) raises unless the statement's parameters
\* $1..$n are exactly the n arguments passed
QueryFails(q, filters) ==
    Placeholders(filters) # 1..Len(SqlParams(q, filters))

\* the WHERE clause on one row: the conditions joined by AND, each reading
\* the argument bound to its placeholder
RowMatches(row, q, filters) ==
    LET conds == Conditions(filters)
        params == SqlParams(q, filters)
    IN \A i \in 1..Len(conds) :
         LET p == params[conds[i].ph] IN
         CASE conds[i].col = "stage" -> row.stage \cap p.tags # {}
           [] conds[i].col = "channel" -> row.channel \cap p.tags # {}
           [] conds[i].col = "goal" -> row.goal \cap p.tags # {}
           [] conds[i].col = "user_level_fit" -> p.text \in row.user_level_fit

Dot(u, v) == u[1] * v[1] + u[2] * v[2]

\* 1 - (embedding <=> q): the cosine similarity, kept exactly as the fraction
\* num/den = sign(u.v) * (u.v)^2 / (|u|^2 |v|^2), which orders as the cosine does
Similarity(e, q) ==
    [num |-> Dot(e, q) * Abs(Dot(e, q)), den |-> Dot(e, e) * Dot(q, q)]

SimLeq(s, t) == s.num * t.den <= t.num * s.den
SimEq(s, t) == s.num * t.den = t.num * s.den

\* SELECT id, ku_id, title, content, yaml, similarity
ResultRow(row, q) ==
    [id |-> row.id, ku_id |-> row.ku_id, title |-> row.title, content |-> row.content,
     yaml |-> row.yaml, similarity |-> Similarity(row.embedding, q)]

\* ORDER BY embedding <=> q: rows of equal distance come in any order
OrderedByDistance(s, q) ==
    \A i, j \in DOMAIN s :
        i < j => SimLeq(Similarity(s[j].embedding, q), Similarity(s[i].embedding, q))

\* every result the query may return: the matching rows by ascending distance,
\* cut to the first k
FetchResults(store, q, filters, k) ==
    LET M == { r \in store : RowMatches(r, q, filters) }
        n == Min(k, Cardinality(M))
        picks == { s \in [1..n -> M] :
                     /\ \A i, j \in 1..n : i # j => s[i] # s[j]
                     /\ OrderedByDistance(s, q)
                     /\ \A r \in M \ { s[i] : i \in 1..n } :
                          \A i \in 1..n :
                            SimLeq(Similarity(r.embedding, q),
                                   Similarity(s[i].embedding, q)) }
    IN { [i \in 1..n |-> ResultRow(s[i], q)] : s \in picks }

----------------------------------------------------------------------------
(* build_llm_prompt *)

BlockHeader == "### Technique: "
Ellipsis == "..."
Nl == "\n"
NlNl == "\n\n"
Persona == "You are a professional mentor."
HistoryHeader == "Dialogue history:\n"
QuestionHeader == "User question:\n"
KnowledgeHeader == "Relevant techniques from the knowledge base:\n"
Instruction == "Give practical advice based on these techniques."

\* f"### Техника: {row['title']}\n\n{content[:500]}..."
Block(row) ==
    <<BlockHeader>> \o row.title \o <<NlNl>> \o Take(row.content, ContentBudget)
    \o <<Ellipsis>>

KnowledgeBlocks(ku_rows) == [i \in 1..Len(ku_rows) |-> Block(ku_rows[i])]

\* as UsedIds, with each ku_id listed once
UsedIds_Distinct(ku_rows) ==
    LET firsts == { i \in 1..Len(ku_rows) :
                      \A j \in 1..(i - 1) : ku_rows[j].ku_id # ku_rows[i].ku_id }
    IN [k \in 1..Cardinality(firsts) |->
          ku_rows[CHOOSE i \in firsts : Cardinality({ j \in firsts : j <= i }) = k].ku_id]

UsedIds(ku_rows) == [i \in 1..Len(ku_rows) |-> ku_rows[i].ku_id]

\* as RecentHistory, with the whole history kept
RecentHistory_All(history) == history

\* history[-5:]
RecentHistory(history) == LastN(history, HistoryWindow)

\* f"{role.upper()}: {msg.get('content','')}\n"
HistoryLine(msg) == <<Upper(msg.role), ": ">> \o msg.content \o <<Nl>>

HistoryText(history) ==
    Concat([i \in 1..Len(RecentHistory(history)) |-> HistoryLine(RecentHistory(history)[i])])

KnowledgeText(ku_rows) == Join(<<NlNl>>, KnowledgeBlocks(ku_rows))

PromptText(user_message, history, ku_rows) ==
    <<Persona, NlNl, HistoryHeader>> \o HistoryText(history)
    \o <<NlNl, QuestionHeader>> \o user_message
    \o <<NlNl, KnowledgeHeader>> \o KnowledgeText(ku_rows)
    \o <<NlNl, Instruction>>

build_llm_prompt(user_message, history, ku_rows) ==
    [prompt |-> PromptText(user_message, history, ku_rows), used_ids |-> UsedIds(ku_rows)]


----------------------------------------------------------------------------
(* The server: chat_endpoint step by step, and direct calls of             *)
(* search_knowledge_units and build_llm_prompt                             *)

ServerInit ==
    /\ knowledge_units \in Stores
    /\ google_api_key \in BOOLEAN
    /\ pc = "idle"
    /\ caller = "none"
    /\ req = NoRequest
    /\ q_emb = <<0, 0>>
    /\ embed_outcome = "none"
    /\ search_filters = None
    /\ top_k = DefaultTopK
    /\ db_open = 0
    /\ rows = <<>>
    /\ prompt = <<>>
    /\ used_ids = <<>>
    /\ llm_outcome = "none"
    /\ answer = <<>>
    /\ response = NoResponse
    /\ raised = "none"
    /\ story_req = NoStory
    /\ student_stories = <<>>

\* POST /chat arrives: chat_endpoint(req)
ChatReceive ==
    /\ pc = "idle"
    /\ \E r \in ChatRequests : req' = r
    /\ caller' = "chat"
    /\ pc' = "embed"
    /\ UNCHANGED <<knowledge_units, q_emb, embed_outcome, search_filters, top_k, db_open,
                   rows, prompt, used_ids, llm_outcome, answer, response, raised,
                   google_api_key, story_req, student_stories>>

\* q_emb = await embed_text(req.user_message), then the call
\* search_knowledge_units(q_emb, req.filters) with the default top_k
EmbedText ==
    /\ pc = "embed"
    /\ \/ /\ ~google_api_key
          /\ embed_outcome' = "no_key"
          /\ q_emb' = FallbackEmbedding(req.user_message)
       \/ /\ google_api_key
          /\ embed_outcome' = "ok"
          /\ q_emb' \in ProviderEmbeddings
       \/ /\ google_api_key
          /\ embed_outcome' = "provider_error"
          /\ q_emb' = FallbackEmbedding(req.user_message)
    /\ search_filters' = req.filters
    /\ top_k' = DefaultTopK
    /\ pc' = "connect"
    /\ UNCHANGED <<knowledge_units, caller, req, db_open, rows, prompt, used_ids,
                   llm_outcome, answer, response, raised, google_api_key, story_req, student_stories>>

\* a direct call search_knowledge_units(query_embedding, filters, top_k)
SearchCall ==
    /\ pc = "idle"
    /\ caller' = "search"
    /\ q_emb' \in ProviderEmbeddings
    /\ search_filters' \in OptFilters
    /\ top_k' \in 1..MaxTopK
    /\ pc' = "connect"
    /\ UNCHANGED <<knowledge_units, req, embed_outcome, db_open, rows, prompt, used_ids,
                   llm_outcome, answer, response, raised, google_api_key, story_req, student_stories>>

\* db = await get_db()
GetDb ==
    /\ pc = "connect"
    /\ db_open' = db_open + 1
    /\ pc' = "fetch"
    /\ UNCHANGED <<knowledge_units, caller, req, q_emb, embed_outcome, search_filters,
                   top_k, rows, prompt, used_ids, llm_outcome, answer, response, raised,
                   google_api_key, story_req, student_stories>>

\* rows = await db.fetch(query, *sql_params); an exception leaves
\* search_knowledge_units and chat_endpoint, and /chat answers HTTP 500
Fetch ==
    /\ pc = "fetch"
    /\ IF QueryFails(q_emb, search_filters)
       THEN /\ raised' = "db_error"
            /\ response' = IF caller = "chat"
                           THEN [status |-> 500, answer |-> <<>>, used_ku_ids |-> <<>>]
                           ELSE response
            /\ pc' = "done"
            /\ UNCHANGED rows
       ELSE /\ rows' \in FetchResults(knowledge_units, q_emb, search_filters, top_k)
            /\ pc' = "close"
            /\ UNCHANGED <<raised, response>>
    /\ UNCHANGED <<knowledge_units, caller, req, q_emb, embed_outcome, search_filters,
                   top_k, db_open, prompt, used_ids, llm_outcome, answer, google_api_key, story_req, student_stories>>

\* await db.close(); return rows
CloseDb ==
    /\ pc = "close"
    /\ db_open' = db_open - 1
    /\ pc' = IF caller = "chat" THEN "build" ELSE "done"
    /\ UNCHANGED <<knowledge_units, caller, req, q_emb, embed_outcome, search_filters,
                   top_k, rows, prompt, used_ids, llm_outcome, answer, response, raised,
                   google_api_key, story_req, student_stories>>

\* a direct call build_llm_prompt(user_message, history, ku_rows)
BuildCall ==
    /\ pc = "idle"
    /\ caller' = "build"
    /\ \E m \in Messages, h \in Histories :
         req' = [user_message |-> m, convo_history |-> h, filters |-> None]
    /\ \E n \in 0..MaxUnits : \E s \in [1..n -> KuUniverse] :
         rows' = [i \in 1..n |-> ResultRow(s[i], <<1, 0>>)]
    /\ pc' = "build"
    /\ UNCHANGED <<knowledge_units, q_emb, embed_outcome, search_filters, top_k, db_open,
                   prompt, used_ids, llm_outcome, answer, response, raised, google_api_key, story_req, student_stories>>

\* prompt, used_ids = build_llm_prompt(req.user_message, req.convo_history, rows)
BuildPrompt ==
    /\ pc = "build"
    /\ LET r == build_llm_prompt(req.user_message, req.convo_history, rows) IN
         /\ prompt' = r.prompt
         /\ used_ids' = r.used_ids
    /\ pc' = IF caller = "chat" THEN "generate" ELSE "done"
    /\ UNCHANGED <<knowledge_units, caller, req, q_emb, embed_outcome, search_filters,
                   top_k, db_open, rows, llm_outcome, answer, response, raised,
                   google_api_key, story_req, student_stories>>

\* answer = await call_llm(prompt): the generated text, or a warning string
\* when the key is missing or the provider raises
CallLlm ==
    /\ pc = "generate"
    /\ \/ /\ ~google_api_key
          /\ llm_outcome' = "no_key"
          /\ answer' = WarnNoKey
       \/ /\ google_api_key
          /\ llm_outcome' = "ok"
          /\ answer' = LlmText
       \/ /\ google_api_key
          /\ llm_outcome' = "provider_error"
          /\ answer' = WarnLlmError
    /\ pc' = "respond"
    /\ UNCHANGED <<knowledge_units, caller, req, q_emb, embed_outcome, search_filters,
                   top_k, db_open, rows, prompt, used_ids, response, raised,
                   google_api_key, story_req, student_stories>>

\* return ChatResponse(answer=answer, used_ku_ids=used_ids)
Respond ==
    /\ pc = "respond"
    /\ response' = [status |-> 200, answer |-> answer, used_ku_ids |-> used_ids]
    /\ pc' = "done"
    /\ UNCHANGED <<knowledge_units, caller, req, q_emb, embed_outcome, search_filters,
                   top_k, db_open, rows, prompt, used_ids, llm_outcome, answer, raised,
                   google_api_key, story_req, student_stories>>

\* POST /student_story arrives: student_story_endpoint(req); db = await get_db()
StoryReceive ==
    /\ pc = "idle"
    /\ \E r \in StoryRequests : story_req' = r
    /\ caller' = "story"
    /\ db_open' = db_open + 1
    /\ pc' = "insert"
    /\ UNCHANGED <<knowledge_units, req, q_emb, embed_outcome, search_filters, top_k, rows,
                   prompt, used_ids, llm_outcome, answer, response, raised,
                   google_api_key, student_stories>>

\* await db.execute(INSERT INTO student_stories ...): the row is written, or
\* the statement raises, which leaves the endpoint and answers HTTP 500
StoryExecute ==
    /\ pc = "insert"
    /\ \/ /\ student_stories' = Append(student_stories, story_req)
          /\ pc' = "story_close"
          /\ UNCHANGED <<raised, response>>
       \/ /\ raised' = "db_error"
          /\ response' = [status |-> 500, answer |-> <<>>, used_ku_ids |-> <<>>]
          /\ pc' = "done"
          /\ UNCHANGED student_stories
    /\ UNCHANGED <<knowledge_units, caller, req, q_emb, embed_outcome, search_filters,
                   top_k, db_open, rows, prompt, used_ids, llm_outcome, answer,
                   google_api_key, story_req>>

\* await db.close(); return {"status": "ok"}
StoryClose ==
    /\ pc = "story_close"
    /\ db_open' = db_open - 1
    /\ response' = [status |-> 200, answer |-> <<"ok">>, used_ku_ids |-> <<>>]
    /\ pc' = "done"
    /\ UNCHANGED <<knowledge_units, caller, req, q_emb, embed_outcome, search_filters,
                   top_k, rows, prompt, used_ids, llm_outcome, answer, raised,
                   google_api_key, story_req, student_stories>>

ServerNext ==
    \/ ChatReceive
    \/ EmbedText
    \/ SearchCall
    \/ GetDb
    \/ Fetch
    \/ CloseDb
    \/ BuildCall
    \/ BuildPrompt
    \/ CallLlm
    \/ Respond
    \/ StoryReceive
    \/ StoryExecute
    \/ StoryClose



----------------------------------------------------------------------------
(* load_knowledge.py: the ingestion loop and the upsert *)

\* a parsed KnowledgeUnit (MarkdownParser.parse_file), embedding not yet set
ParsedUnit(ku_id, v) ==
    [ku_id |-> ku_id,
     title |-> <<"T", ToString(v)>>,
     content |-> Text(v),
     yaml_data |-> <<"yaml:", ku_id, ToString(v)>>,
     level |-> IF v = 1 THEN "base" ELSE "advanced",
     user_level_fit |-> IF v = 1 THEN {"novice"} ELSE {"novice", "master"},
     stage |-> IF v = 1 THEN {"cold_approach"} ELSE {"SOS"},
     channel |-> IF v = 1 THEN {} ELSE {"social"},
     goal |-> IF v = 1 THEN {"self_growth"} ELSE {},
     style |-> {},
     riskiness |-> v,
     embedding |-> <<>>]

\* what the files of the source folder parse to: two versions of two units
FileUnits == { ParsedUnit(id, v) : id \in {"ku1", "ku2"}, v \in {1, 2} }

NoUnit == ParsedUnit("", 0)

\* as ZeroVector, with the fallback leaving the embedding unset
ZeroVector_Unset == <<>>

\* [0.0] * self.dimension
ZeroVector == [i \in 1..Dimension |-> 0]

\* the columns a statement writes from a KnowledgeUnit
RowOf(u, id, t) ==
    [id |-> id, ku_id |-> u.ku_id, title |-> u.title, content |-> u.content,
     yaml |-> u.yaml_data, level |-> u.level, user_level_fit |-> u.user_level_fit,
     stage |-> u.stage, channel |-> u.channel, goal |-> u.goal, style |-> u.style,
     riskiness |-> u.riskiness, embedding |-> u.embedding, updated_at |-> t]

\* as Upsert, with ON CONFLICT (ku_id) DO NOTHING: an existing row is kept as it is
Upsert_DoNothing(table, u, id, t) ==
    IF \E r \in table : r.ku_id = u.ku_id
    THEN table
    ELSE table \cup { [id |-> id, ku_id |-> u.ku_id, title |-> u.title,
                       content |-> u.content, yaml |-> u.yaml_data, level |-> u.level,
                       user_level_fit |-> u.user_level_fit, stage |-> u.stage,
                       channel |-> u.channel, goal |-> u.goal, style |-> u.style,
                       riskiness |-> u.riskiness, embedding |-> u.embedding,
                       updated_at |-> t] }

\* INSERT ... ON CONFLICT (ku_id) DO UPDATE SET <every column> = EXCLUDED.<column>,
\* updated_at = NOW(): the row of that ku_id keeps its id and takes the new values
Upsert(table, u, id, t) ==
    IF \E r \in table : r.ku_id = u.ku_id
    THEN { IF r.ku_id = u.ku_id THEN RowOf(u, r.id, t) ELSE r : r \in table }
    ELSE table \cup { RowOf(u, id, t) }

IngestOff ==
    /\ ingest_pc = "off"
    /\ ku = NoUnit
    /\ n_files = 0
    /\ successful = 0
    /\ failed = 0
    /\ next_id = 1
    /\ now = 0

IngestInit ==
    /\ knowledge_units = {}
    /\ ingest_pc = "next"
    /\ ku = NoUnit
    /\ n_files = 0
    /\ successful = 0
    /\ failed = 0
    /\ next_id = 1
    /\ now = 0

\* for filepath in md_files: ku = MarkdownParser.parse_file(filepath); a file
\* that does not parse is counted as failed and skipped
IngestParse ==
    /\ ingest_pc = "next"
    /\ n_files < MaxFiles
    /\ n_files' = n_files + 1
    /\ \/ /\ ku' \in FileUnits
          /\ ingest_pc' = "embed"
          /\ UNCHANGED failed
       \/ /\ failed' = failed + 1
          /\ UNCHANGED <<ku, ingest_pc>>
    /\ UNCHANGED <<successful, next_id, now, serverVars, botVars>>

\* ku.embedding = await embedder.generate(text): the provider's vector, or
\* the zero vector when the provider raises
IngestEmbed ==
    /\ ingest_pc = "embed"
    /\ \/ \E v \in ProviderEmbeddings : ku' = [ku EXCEPT !.embedding = v]
       \/ ku' = [ku EXCEPT !.embedding = ZeroVector]
    /\ ingest_pc' = "insert"
    /\ UNCHANGED <<n_files, successful, failed, next_id, now, serverVars, botVars>>

\* if await db.insert_knowledge_unit(ku): the statement runs, or raises and
\* leaves the table as it was
IngestInsert ==
    /\ ingest_pc = "insert"
    /\ now' = now + 1
    /\ \/ /\ knowledge_units' = Upsert(knowledge_units, ku, next_id, now')
          /\ next_id' = next_id + 1
          /\ successful' = successful + 1
          /\ UNCHANGED failed
       \/ /\ failed' = failed + 1
          /\ UNCHANGED <<knowledge_units, next_id, successful>>
    /\ ingest_pc' = "next"
    /\ UNCHANGED <<ku, n_files, pc, caller, req, q_emb, embed_outcome, search_filters,
                   top_k, db_open, rows, prompt, used_ids, llm_outcome, answer, response,
                   raised, google_api_key, story_req, student_stories, botVars>>

\* the loop ends; await db.close()
IngestFinish ==
    /\ ingest_pc = "next"
    /\ ingest_pc' = "finished"
    /\ UNCHANGED <<ku, n_files, successful, failed, next_id, now, serverVars, botVars>>

IngestNext ==
    \/ IngestParse
    \/ IngestEmbed
    \/ IngestInsert
    \/ IngestFinish

----------------------------------------------------------------------------
(* bot.py: the session in MemoryStorage and the handlers.  The dispatcher   *)
(* runs every update's handler as its own task, so handlers of one session  *)
(* interleave at their network calls; the storage calls do not suspend.     *)
(* get_data returns a shallow copy of the data dict, so a handler's         *)
(* history is the very list object the storage holds.                       *)

StartCmd == <<"/start">>
ResetCmd == <<"/reset">>
HelpCmd == <<"/help">>
FreeText == <<"h", "i">>

\* texts a user sends
BotTexts == { StartCmd, ResetCmd, HelpCmd, FreeText }

\* callback_data of level_keyboard, mode_keyboard, story_outcome_keyboard
LevelButtons == { "novice", "master" }
ModeButtons == { "field", "online", "self", "sos" }
OutcomeButtons == { "success", "failure" }

\* Command("x"), CommandStart(): the text begins with the command
IsCommand(text, c) == text # <<>> /\ text[1] = c

\* the session's data dict: every key may be missing
EmptyData == [history |-> None, level |-> None, mode |-> None, story_text |-> None]

\* dict.get(key, default)
Get(o, d) == IF IsSome(o) THEN Val(o) ELSE d

NoTask ==
    [handler |-> "none", step |-> "none", text |-> <<>>, level |-> "", mode |-> "",
     history |-> 0, request |-> NoRequest, outcome |-> "", result |-> ""]

NoKeyboards == [level |-> 0, mode |-> 0, story |-> 0, outcome |-> 0]

\* call_rag_chat: filters = {"level": level, ...}, one field set by the mode
FiltersFor(level, mode) ==
    [level |-> Some(level),
     stage |-> CASE mode = "field" -> Some({"cold_approach", "first_date", "closing"})
                 [] mode = "sos" -> Some({"SOS"})
                 [] OTHER -> None,
     channel |-> IF mode = "online" THEN Some({"social", "messengers"}) ELSE None,
     goal |-> IF mode = "self" THEN Some({"self_growth"}) ELSE None]

\* what call_rag_chat returns: data["answer"], or a warning string (the server
\* answered with an error status, the connection failed, or anything else raised)
RagAnswers == { <<"advice">>, <<"WARN">> }

\* what the POST /student_story request may do: answer 200, answer an error
\* status, or fail to connect
StoryOutcomes == { "ok", "error_status", "connection_failure" }

\* as send_story_to_server, with only an error status ignored: a failure to
\* connect leaves the function as an exception
send_story_to_server_Propagates(request_outcome) ==
    IF request_outcome = "connection_failure" THEN "raised" ELSE "returned"

\* try: await session.post(...)  except: pass -- the response is never looked
\* at and every exception is swallowed
send_story_to_server(request_outcome) == "returned"

HasFreeTask == \E t \in 1..MaxTasks : tasks[t].handler = "none"
FreeTask == CHOOSE t \in 1..MaxTasks :
                /\ tasks[t].handler = "none"
                /\ \A u \in 1..MaxTasks : tasks[u].handler = "none" => t <= u

\* a chat turn's request to the server is in flight
CallInFlight ==
    \E t \in 1..MaxTasks : tasks[t].handler = "on_chat_message" /\ tasks[t].step = "in_flight"

\* the dispatcher takes one more update and starts its handler as a task
Takes(text) ==
    /\ n_updates < MaxUpdates
    /\ HasFreeTask
    /\ n_updates' = n_updates + 1
    /\ reset_in_flight' = (IsCommand(text, "/reset") /\ CallInFlight)

Starts(handler, text) ==
    tasks' = [tasks EXCEPT ![FreeTask] =
                [NoTask EXCEPT !.handler = handler, !.step = "answer", !.text = text]]

Ends(t) == tasks' = [tasks EXCEPT ![t] = NoTask]

\* one keyboard of a kind is edited away
Less(n) == Max(0, n - 1)

BotOff ==
    /\ fsm_state = "none"
    /\ fsm_data = EmptyData
    /\ heap = <<>>
    /\ tasks = [t \in 1..MaxTasks |-> NoTask]
    /\ keyboards = NoKeyboards
    /\ n_updates = MaxUpdates
    /\ reset_in_flight = FALSE

\* a new session, or a session that has chatted for one turn
BotInit ==
    /\ tasks = [t \in 1..MaxTasks |-> NoTask]
    /\ n_updates = 0
    /\ reset_in_flight = FALSE
    /\ \/ /\ fsm_state = "none"
          /\ fsm_data = EmptyData
          /\ heap = <<>>
          /\ keyboards = NoKeyboards
       \/ /\ fsm_state = "chatting"
          /\ fsm_data = [history |-> Some(1), level |-> Some("novice"),
                         mode |-> Some("field"), story_text |-> None]
          /\ heap = << <<[role |-> "user", content |-> <<"o", "l", "d">>],
                         [role |-> "assistant", content |-> <<"advice">>]>> >>
          /\ keyboards = [NoKeyboards EXCEPT !.story = 1]

\* @dp.message(CommandStart()): await state.update_data(history=[])
cmd_start ==
    /\ \E text \in BotTexts :
         /\ IsCommand(text, "/start")
         /\ Takes(text)
         /\ Starts("cmd_start", text)
    /\ heap' = Append(heap, <<>>)
    /\ fsm_data' = [fsm_data EXCEPT !.history = Some(Len(heap) + 1)]
    /\ UNCHANGED <<fsm_state, keyboards, serverVars, ingestVars>>

\* ... await message.answer(..., level_keyboard()); await state.set_state(choosing_level)
cmd_start_end ==
    \E t \in 1..MaxTasks :
      /\ tasks[t].handler = "cmd_start"
      /\ fsm_state' = "choosing_level"
      /\ keyboards' = [keyboards EXCEPT !.level = @ + 1]
      /\ Ends(t)
      /\ UNCHANGED <<fsm_data, heap, n_updates, reset_in_flight, serverVars, ingestVars>>

\* @dp.callback_query(F.data.startswith("level:")): await state.update_data(level=level)
on_level_chosen ==
    /\ keyboards.level > 0
    /\ Takes(<<>>)
    /\ Starts("on_level_chosen", <<>>)
    /\ \E level \in LevelButtons : fsm_data' = [fsm_data EXCEPT !.level = Some(level)]
    /\ UNCHANGED <<fsm_state, heap, keyboards, serverVars, ingestVars>>

\* ... edit_text(..., mode_keyboard()); await state.set_state(choosing_mode)
on_level_chosen_end ==
    \E t \in 1..MaxTasks :
      /\ tasks[t].handler = "on_level_chosen"
      /\ fsm_state' = "choosing_mode"
      /\ keyboards' = [keyboards EXCEPT !.level = Less(@), !.mode = @ + 1]
      /\ Ends(t)
      /\ UNCHANGED <<fsm_data, heap, n_updates, reset_in_flight, serverVars, ingestVars>>

\* @dp.callback_query(F.data.startswith("mode:")): await state.update_data(mode=mode)
on_mode_chosen ==
    /\ keyboards.mode > 0
    /\ Takes(<<>>)
    /\ Starts("on_mode_chosen", <<>>)
    /\ \E mode \in ModeButtons : fsm_data' = [fsm_data EXCEPT !.mode = Some(mode)]
    /\ UNCHANGED <<fsm_state, heap, keyboards, serverVars, ingestVars>>

\* ... edit_text(...); await state.set_state(chatting)
on_mode_chosen_end ==
    \E t \in 1..MaxTasks :
      /\ tasks[t].handler = "on_mode_chosen"
      /\ fsm_state' = "chatting"
      /\ keyboards' = [keyboards EXCEPT !.mode = Less(@)]
      /\ Ends(t)
      /\ UNCHANGED <<fsm_data, heap, n_updates, reset_in_flight, serverVars, ingestVars>>

\* @dp.message(ChatState.chatting), registered before cmd_reset and cmd_help:
\* takes every message but /start while the state is chatting.
\* data = get_data(); history.append(user turn); update_data(history=history)
on_chat_message ==
    /\ fsm_state = "chatting"
    /\ \E text \in BotTexts :
         /\ ~IsCommand(text, "/start")
         /\ Takes(text)
         /\ LET ref == Get(fsm_data.history, Len(heap) + 1)
                old == IF IsSome(fsm_data.history) THEN heap[ref] ELSE <<>>
                new == Append(old, [role |-> "user", content |-> text])
            IN /\ heap' = IF IsSome(fsm_data.history)
                          THEN [heap EXCEPT ![ref] = new]
                          ELSE Append(heap, new)
               /\ fsm_data' = [fsm_data EXCEPT !.history = Some(ref)]
               /\ tasks' = [tasks EXCEPT ![FreeTask] =
                              [NoTask EXCEPT !.handler = "on_chat_message",
                                             !.step = "thinking",
                                             !.text = text,
                                             !.level = Get(fsm_data.level, "novice"),
                                             !.mode = Get(fsm_data.mode, "field"),
                                             !.history = ref]]
    /\ UNCHANGED <<fsm_state, keyboards, serverVars, ingestVars>>

\* ... wait_msg = await message.answer(...); call_rag_chat builds the payload
\* from the history list as it is now and posts it
on_chat_message_call ==
    \E t \in 1..MaxTasks :
      /\ tasks[t].handler = "on_chat_message"
      /\ tasks[t].step = "thinking"
      /\ tasks' = [tasks EXCEPT ![t].step = "in_flight",
                                ![t].request =
                                   [user_message |-> tasks[t].text,
                                    convo_history |-> heap[tasks[t].history],
                                    filters |-> Some(FiltersFor(tasks[t].level, tasks[t].mode))]]
      /\ UNCHANGED <<fsm_state, fsm_data, heap, keyboards, n_updates, reset_in_flight,
                     serverVars, ingestVars>>

\* ... call_rag_chat returns; await message.answer(answer);
\* history.append(assistant turn); update_data(history=history)
on_chat_message_record ==
    \E t \in 1..MaxTasks :
      /\ tasks[t].handler = "on_chat_message"
      /\ tasks[t].step = "in_flight"
      /\ \E a \in RagAnswers :
           heap' = [heap EXCEPT ![tasks[t].history] =
                      Append(@, [role |-> "assistant", content |-> a])]
      /\ fsm_data' = [fsm_data EXCEPT !.history = Some(tasks[t].history)]
      /\ tasks' = [tasks EXCEPT ![t].step = "offer"]
      /\ UNCHANGED <<fsm_state, keyboards, n_updates, reset_in_flight, serverVars,
                     ingestVars>>

\* ... await message.answer("record a case?", the story:start button)
on_chat_message_offer ==
    \E t \in 1..MaxTasks :
      /\ tasks[t].handler = "on_chat_message"
      /\ tasks[t].step = "offer"
      /\ keyboards' = [keyboards EXCEPT !.story = @ + 1]
      /\ Ends(t)
      /\ UNCHANGED <<fsm_state, fsm_data, heap, n_updates, reset_in_flight, serverVars,
                     ingestVars>>

\* @dp.callback_query(F.data == "story:start")
story_start ==
    /\ keyboards.story > 0
    /\ Takes(<<>>)
    /\ Starts("story_start", <<>>)
    /\ UNCHANGED <<fsm_state, fsm_data, heap, keyboards, serverVars, ingestVars>>

\* ... await callback.message.answer(...); await state.set_state(writing_story)
story_start_end ==
    \E t \in 1..MaxTasks :
      /\ tasks[t].handler = "story_start"
      /\ fsm_state' = "writing_story"
      /\ Ends(t)
      /\ UNCHANGED <<fsm_data, heap, keyboards, n_updates, reset_in_flight, serverVars,
                     ingestVars>>

\* @dp.message(ChatState.writing_story), registered before cmd_reset and cmd_help:
\* await state.update_data(story_text=message.text)
on_story_text ==
    /\ fsm_state = "writing_story"
    /\ \E text \in BotTexts :
         /\ ~IsCommand(text, "/start")
         /\ Takes(text)
         /\ Starts("on_story_text", text)
         /\ fsm_data' = [fsm_data EXCEPT !.story_text = Some(text)]
    /\ UNCHANGED <<fsm_state, heap, keyboards, serverVars, ingestVars>>

\* ... await message.answer(..., story_outcome_keyboard()); set_state(story_outcome)
on_story_text_end ==
    \E t \in 1..MaxTasks :
      /\ tasks[t].handler = "on_story_text"
      /\ fsm_state' = "story_outcome"
      /\ keyboards' = [keyboards EXCEPT !.outcome = @ + 1]
      /\ Ends(t)
      /\ UNCHANGED <<fsm_data, heap, n_updates, reset_in_flight, serverVars, ingestVars>>

\* @dp.callback_query(ChatState.story_outcome, F.data.startswith("outcome:")):
\* data = get_data(); the story goes to send_story_to_server
on_story_outcome ==
    /\ fsm_state = "story_outcome"
    /\ keyboards.outcome > 0
    /\ Takes(<<>>)
    /\ \E outcome \in OutcomeButtons :
         tasks' = [tasks EXCEPT ![FreeTask] =
                     [NoTask EXCEPT !.handler = "on_story_outcome",
                                    !.step = "sending",
                                    !.outcome = outcome,
                                    !.text = Get(fsm_data.story_text, <<>>),
                                    !.level = Get(fsm_data.level, "novice"),
                                    !.mode = Get(fsm_data.mode, "field")]]
    /\ UNCHANGED <<fsm_state, fsm_data, heap, keyboards, serverVars, ingestVars>>

\* ... await send_story_to_server(...): the request ends one way or another;
\* an exception leaving send_story_to_server would end the handler here
on_story_outcome_sent ==
    \E t \in 1..MaxTasks :
      /\ tasks[t].handler = "on_story_outcome"
      /\ tasks[t].step = "sending"
      /\ \E o \in StoryOutcomes :
           IF send_story_to_server(o) = "raised"
           THEN Ends(t)
           ELSE tasks' = [tasks EXCEPT ![t].step = "answer", ![t].result = o]
      /\ UNCHANGED <<fsm_state, fsm_data, heap, keyboards, n_updates, reset_in_flight,
                     serverVars, ingestVars>>

\* ... await callback.message.edit_text(...); await state.set_state(chatting)
on_story_outcome_end ==
    \E t \in 1..MaxTasks :
      /\ tasks[t].handler = "on_story_outcome"
      /\ tasks[t].step = "answer"
      /\ fsm_state' = "chatting"
      /\ keyboards' = [keyboards EXCEPT !.outcome = Less(@)]
      /\ Ends(t)
      /\ UNCHANGED <<fsm_data, heap, n_updates, reset_in_flight, serverVars, ingestVars>>

\* @dp.message(Command("reset")): reached only when no earlier message handler
\* takes the update.  await state.clear()
cmd_reset ==
    /\ fsm_state \notin {"chatting", "writing_story"}
    /\ \E text \in BotTexts :
         /\ IsCommand(text, "/reset")
         /\ Takes(text)
         /\ Starts("cmd_reset", text)
    /\ fsm_state' = "none"
    /\ fsm_data' = EmptyData
    /\ UNCHANGED <<heap, keyboards, serverVars, ingestVars>>

\* ... await message.answer(..., level_keyboard()); set_state(choosing_level)
cmd_reset_end ==
    \E t \in 1..MaxTasks :
      /\ tasks[t].handler = "cmd_reset"
      /\ fsm_state' = "choosing_level"
      /\ keyboards' = [keyboards EXCEPT !.level = @ + 1]
      /\ Ends(t)
      /\ UNCHANGED <<fsm_data, heap, n_updates, reset_in_flight, serverVars, ingestVars>>

\* @dp.message(Command("help")): answers and touches no state
cmd_help ==
    /\ fsm_state \notin {"chatting", "writing_story"}
    /\ \E text \in BotTexts :
         /\ IsCommand(text, "/help")
         /\ Takes(text)
    /\ UNCHANGED <<fsm_state, fsm_data, heap, tasks, keyboards, serverVars, ingestVars>>

\* an update no handler's filters accept: a plain text outside chatting and
\* writing_story, or an outcome button outside story_outcome
Unhandled ==
    /\ \/ /\ fsm_state \notin {"chatting", "writing_story"}
          /\ Takes(FreeText)
       \/ /\ fsm_state # "story_outcome"
          /\ keyboards.outcome > 0
          /\ Takes(<<>>)
    /\ UNCHANGED <<fsm_state, fsm_data, heap, tasks, keyboards, serverVars, ingestVars>>

BotNext ==
    \/ cmd_start
    \/ cmd_start_end
    \/ on_level_chosen
    \/ on_level_chosen_end
    \/ on_mode_chosen
    \/ on_mode_chosen_end
    \/ on_chat_message
    \/ on_chat_message_call
    \/ on_chat_message_record
    \/ on_chat_message_offer
    \/ story_start
    \/ story_start_end
    \/ on_story_text
    \/ on_story_text_end
    \/ on_story_outcome
    \/ on_story_outcome_sent
    \/ on_story_outcome_end
    \/ cmd_reset
    \/ cmd_reset_end
    \/ cmd_help
    \/ Unhandled

----------------------------------------------------------------------------
(* Specifications *)

\* the server alone, over every store
Init == ServerInit /\ IngestOff /\ BotOff

Next == ServerNext /\ UNCHANGED <<ingestVars, botVars>>

Spec == Init /\ [][Next]_vars

\* an ingestion run into an empty table
ServerIdle ==
    /\ google_api_key = TRUE
    /\ pc = "idle"
    /\ caller = "none"
    /\ req = NoRequest
    /\ q_emb = <<0, 0>>
    /\ embed_outcome = "none"
    /\ search_filters = None
    /\ top_k = DefaultTopK
    /\ db_open = 0
    /\ rows = <<>>
    /\ prompt = <<>>
    /\ used_ids = <<>>
    /\ llm_outcome = "none"
    /\ answer = <<>>
    /\ response = NoResponse
    /\ raised = "none"
    /\ story_req = NoStory
    /\ student_stories = <<>>

InitIngest == ServerIdle /\ IngestInit /\ BotOff

SpecIngest == InitIngest /\ [][IngestNext]_vars

\* one session of the bot, the server being whatever answers its requests
IngestIdle ==
    /\ knowledge_units = {}
    /\ IngestOff

InitBot == ServerIdle /\ IngestIdle /\ BotInit

SpecBot == InitBot /\ [][BotNext]_vars

----------------------------------------------------------------------------
(* Reading a prompt back: its sections, history lines and knowledge blocks *)

\* first position of token tok in s, or 0
FirstIndex(s, tok) ==
    LET I == { i \in DOMAIN s : s[i] = tok }
    IN IF I = {} THEN 0 ELSE CHOOSE i \in I : \A j \in I : i <= j

\* the text between header token a and the blank line before header token b
SectionBetween(p, a, b) == SubSeq(p, FirstIndex(p, a) + 1, FirstIndex(p, b) - 2)

HistorySection(p) == SectionBetween(p, HistoryHeader, QuestionHeader)
QuestionSection(p) == SectionBetween(p, QuestionHeader, KnowledgeHeader)
KnowledgeSection(p) == SectionBetween(p, KnowledgeHeader, Instruction)

\* persona, the three headed sections and the instruction suffix, in this order
StructurallyComplete(p) ==
    /\ Len(p) >= 1 /\ p[1] = Persona
    /\ 1 < FirstIndex(p, HistoryHeader)
    /\ FirstIndex(p, HistoryHeader) < FirstIndex(p, QuestionHeader)
    /\ FirstIndex(p, QuestionHeader) < FirstIndex(p, KnowledgeHeader)
    /\ FirstIndex(p, KnowledgeHeader) < FirstIndex(p, Instruction)
    /\ FirstIndex(p, Instruction) = Len(p)

RECURSIVE SplitLines(_)
\* the lines of a text in which every line ends with a newline
SplitLines(t) ==
    IF t = <<>> THEN <<>>
    ELSE LET k == FirstIndex(t, Nl) IN
         IF k = 0 THEN <<t>>
         ELSE <<SubSeq(t, 1, k - 1)>> \o SplitLines(SubSeq(t, k + 1, Len(t)))

RECURSIVE SplitBlocks(_)
\* the blocks of a knowledge section: each starts at a block header and is
\* separated from the next by a blank line
SplitBlocks(t) ==
    IF t = <<>> THEN <<>>
    ELSE LET k == FirstIndex(Tail(t), BlockHeader) IN
         IF k = 0 THEN <<t>>
         ELSE <<SubSeq(t, 1, k - 1)>> \o SplitBlocks(SubSeq(t, k + 1, Len(t)))

IsPrefix(s, t) == Len(s) <= Len(t) /\ SubSeq(t, 1, Len(s)) = s

\* the call of search_knowledge_units has got past db.fetch
Fetched ==
    /\ caller \in {"chat", "search"}
    /\ pc \in {"close", "build", "generate", "respond", "done"}

\* build_llm_prompt has returned
Built ==
    \/ caller = "build" /\ pc = "done"
    \/ caller = "chat" /\ pc \in {"generate", "respond"}
    \/ caller = "chat" /\ pc = "done" /\ raised = "none"

\* the /chat request has ended
ChatEnded == caller = "chat" /\ pc = "done"

\* the stored knowledge unit a result row was read from
UnitOf(row) == CHOOSE u \in knowledge_units : u.ku_id = row.ku_id

\* the Filter predicate of the data model: every non-null field restricts
UnitSatisfies(u, filters) ==
    IsSome(filters) =>
        LET f == Val(filters) IN
        /\ IsSome(f.stage) => u.stage \cap Val(f.stage) # {}
        /\ IsSome(f.channel) => u.channel \cap Val(f.channel) # {}
        /\ IsSome(f.goal) => u.goal \cap Val(f.goal) # {}
        /\ IsSome(f.level) => Val(f.level) \in u.user_level_fit

----------------------------------------------------------------------------
(* Claims *)

\* C1: for every filter with any subset of level, stage, channel, goal set,
\* search_knowledge_units completes without error and every returned unit
\* satisfies all the non-null fields at once.
C1_FilteredSearchCompletes ==
    Fetched
        => /\ raised = "none"
           /\ \A i \in DOMAIN rows : UnitSatisfies(UnitOf(rows[i]), search_filters)

\* C2: when the embedding provider fails during a /chat request (exception or
\* missing credentials), the request does not end in a success response.
C2_EmbeddingFailureSurfaces ==
    (ChatEnded /\ embed_outcome \in {"provider_error", "no_key"})
        => response.status # 200

\* C3: when the generation provider fails (exception or missing credential),
\* the failure is never the answer field of a successful ChatResponse.
C3_GenerationFailureTyped ==
    (ChatEnded /\ llm_outcome \in {"provider_error", "no_key"})
        => ~(response.status = 200 /\ response.answer = answer)

\* C4: for an empty list of retrieved units the prompt has all its sections,
\* the knowledge section holds a "no techniques found" marker line instead of
\* being empty, and used_ku_ids is empty.
C4_EmptyRetrievalMarked ==
    (Built /\ rows = <<>>)
        => /\ StructurallyComplete(prompt)
           /\ KnowledgeSection(prompt) # <<>>
           /\ used_ids = <<>>

\* C5: every unit's block holds the title and the first 500 characters of the
\* content at most, and ends with the truncation marker exactly when the
\* content is longer than 500 characters.
C5_MarkerOnlyWhenCut ==
    Built =>
        LET blocks == SplitBlocks(KnowledgeSection(prompt)) IN
        /\ Len(blocks) = Len(rows)
        /\ \A i \in DOMAIN rows :
             blocks[i] =
                <<BlockHeader>> \o rows[i].title \o <<NlNl>>
                \o Take(rows[i].content, ContentBudget)
                \o (IF Len(rows[i].content) > ContentBudget THEN <<Ellipsis>> ELSE <<>>)

\* C6: retrieval returns at most top_k units by descending similarity, and
\* units of exactly equal similarity come in ascending ku_id order.
C6_RankedWithTieBreak ==
    (caller = "search" /\ pc = "done" /\ raised = "none")
        => /\ Len(rows) <= top_k
           /\ \A i, j \in DOMAIN rows :
                i < j =>
                  /\ SimLeq(rows[j].similarity, rows[i].similarity)
                  /\ SimEq(rows[i].similarity, rows[j].similarity)
                       => KuIdIndex(rows[i].ku_id) < KuIdIndex(rows[j].ku_id)

\* C7: the history section renders exactly the last min(5, len(history)) turns
\* in chronological order, each as "<ROLE>: <content>", and no older turn.
C7_LastFiveTurns ==
    Built =>
        LET h == req.convo_history
            n == Min(5, Len(h))
            lines == SplitLines(HistorySection(prompt))
        IN /\ Len(lines) = n
           /\ \A i \in 1..n :
                lines[i] =
                   <<(IF h[Len(h) - n + i].role = "user" THEN "USER" ELSE "ASSISTANT"), ": ">>
                   \o h[Len(h) - n + i].content

C7_Witness == Built /\ Len(req.convo_history) > 5

\* C8: the prompt holds one knowledge block per retrieved unit in input order,
\* used_ku_ids lists the units' ku_id in that order with duplicates kept, and
\* /chat returns that list.
C8_BlocksAndIdsInOrder ==
    /\ Built =>
         LET blocks == SplitBlocks(KnowledgeSection(prompt)) IN
         /\ Len(blocks) = Len(rows)
         /\ \A i \in DOMAIN rows :
              IsPrefix(<<BlockHeader>> \o rows[i].title \o <<NlNl>>, blocks[i])
         /\ Len(used_ids) = Len(rows)
         /\ \A i \in DOMAIN rows : used_ids[i] = rows[i].ku_id
    /\ (ChatEnded /\ response.status = 200) => response.used_ku_ids = used_ids

C8_Witness ==
    /\ ChatEnded /\ response.status = 200
    /\ Len(rows) >= 2
    /\ response.used_ku_ids = <<rows[1].ku_id, rows[2].ku_id>>


\* no handler of the session is running
BotQuiet == \A t \in 1..MaxTasks : tasks[t].handler = "none"

\* C9: when the user sends /reset while a chat turn's call to the server is in
\* flight, then once the handlers have finished the session is in
\* choosing_level and its stored data holds nothing from before the reset.
C9_ResetDuringCall ==
    (reset_in_flight /\ BotQuiet)
        => /\ fsm_state = "choosing_level"
           /\ fsm_data = EmptyData

\* the KnowledgeUnit a row holds: identity, content, tags, riskiness, embedding
UnitInRow(r) ==
    [ku_id |-> r.ku_id, title |-> r.title, content |-> r.content, yaml_data |-> r.yaml,
     level |-> r.level, user_level_fit |-> r.user_level_fit, stage |-> r.stage,
     channel |-> r.channel, goal |-> r.goal, style |-> r.style,
     riskiness |-> r.riskiness, embedding |-> r.embedding]

\* C10: a successful insert_knowledge_unit(ku) leaves exactly one unit under
\* ku.ku_id, holding the fields of this write; every other row is untouched;
\* and writing a unit the store already holds leaves the store's units as
\* they were.
C10_UpsertLaterWriteWins ==
    [][ (ingest_pc = "insert" /\ successful' = successful + 1) =>
          /\ Cardinality({ r \in knowledge_units' : r.ku_id = ku.ku_id }) = 1
          /\ \A r \in knowledge_units' : r.ku_id = ku.ku_id => UnitInRow(r) = ku
          /\ { r \in knowledge_units' : r.ku_id # ku.ku_id }
               = { r \in knowledge_units : r.ku_id # ku.ku_id }
          /\ (\E r \in knowledge_units : UnitInRow(r) = ku)
               => { UnitInRow(r) : r \in knowledge_units' }
                    = { UnitInRow(r) : r \in knowledge_units }
      ]_vars

\* two successful writes have left one row: the second met the first's ku_id
C10_Witness ==
    /\ ingest_pc = "next"
    /\ successful >= 2
    /\ Cardinality(knowledge_units) = 1
    /\ \E r \in knowledge_units : UnitInRow(r) = ku /\ r.updated_at = now

C14_EmptyMessageRejected ==
    (caller = "chat" /\ req.user_message = <<>>)
        => /\ embed_outcome = "none"
           /\ response.status # 200

\* C15: every database connection opened for a request is closed when the
\* request ends, on success and on error, and none is open during the
\* embedding or generation call.
C15_ConnectionsClosed ==
    /\ pc = "done" => db_open = 0
    /\ pc \in {"embed", "generate"} => db_open = 0

\* the history the session's storage holds
StoredHistory ==
    IF IsSome(fsm_data.history) THEN heap[Val(fsm_data.history)] ELSE <<>>

\* a turn that records the warning call_rag_chat returned as the assistant's words
IsWarningTurn(turn) == turn.role = "assistant" /\ turn.content = <<"WARN">>

\* C11: when a chat turn's request fails, the warning shown to the user is not
\* recorded in the session history as an assistant turn and is never sent as
\* conversation context in a later /chat request.
C11_WarningNotRecorded ==
    /\ \A i \in DOMAIN StoredHistory : ~IsWarningTurn(StoredHistory[i])
    /\ \A t \in 1..MaxTasks :
         \A i \in DOMAIN tasks[t].request.convo_history :
            ~IsWarningTurn(tasks[t].request.convo_history[i])

\* this step belongs to the on_story_outcome invocation in slot t
StepOfStoryOutcome(t) ==
    /\ tasks'[t] # tasks[t]
    /\ \/ tasks[t].handler = "on_story_outcome"
       \/ tasks'[t].handler = "on_story_outcome"

\* C12: whatever the /student_story request does, send_story_to_server raises
\* nothing, on_story_outcome runs to its end, the session returns to chatting,
\* and the session's level, mode and history stay as they were.
C12_StoryBestEffort ==
    [][ \A t \in 1..MaxTasks :
          StepOfStoryOutcome(t) =>
            /\ tasks[t].step = "sending" =>
                  /\ tasks'[t].handler = "on_story_outcome"
                  /\ tasks'[t].step = "answer"
            /\ tasks'[t].handler = "none" => fsm_state' = "chatting"
            /\ fsm_data'.level = fsm_data.level
            /\ fsm_data'.mode = fsm_data.mode
            /\ fsm_data'.history = fsm_data.history
            /\ heap' = heap
      ]_vars

\* the request failed to connect and on_story_outcome went on to its answer
C12_Witness ==
    \E t \in 1..MaxTasks :
        /\ tasks[t].handler = "on_story_outcome"
        /\ tasks[t].step = "answer"
        /\ tasks[t].result = "connection_failure"
        /\ IsSome(fsm_data.history)

\* C16: a /reset sent in any conversation state is handled by cmd_reset, never
\* as a chat message or as story text.
C16_ResetAlwaysResets ==
    \A t \in 1..MaxTasks :
        IsCommand(tasks[t].text, "/reset") => tasks[t].handler = "cmd_reset"

\* this step is the start of cmd_start or cmd_reset, which replace the history
Restarting ==
    \E t \in 1..MaxTasks :
        /\ tasks[t].handler = "none"
        /\ tasks'[t].handler \in {"cmd_start", "cmd_reset"}

\* C17: between resets and restarts the stored history only grows by
\* appending: every stored value extends the one before it, so that no turn
\* is lost or overwritten, also when messages are handled concurrently.
C17_HistoryAppendOnly ==
    [][ ~Restarting => IsPrefix(StoredHistory, StoredHistory') ]_vars

\* C18: in every /chat request the bot sends, convo_history is non-empty and
\* its last element is the user turn of the request's own user_message.
C18_RequestEndsWithOwnMessage ==
    \A t \in 1..MaxTasks :
        (tasks[t].handler = "on_chat_message" /\ tasks[t].step \in {"in_flight", "offer"})
            => LET h == tasks[t].request.convo_history IN
               /\ h # <<>>
               /\ h[Len(h)] = [role |-> "user", content |-> tasks[t].request.user_message]

====
